---------------------------- MODULE Spec2Model ----------------------------
(***************************************************************************)
(* Column detection and reading-order reconstruction of                   *)
(* smartextractor.processors.layout_processor.LayoutProcessor.            *)
(*                                                                         *)
(* A page (models.PageResult) holds its width, height and the ordered     *)
(* list text_blocks of models.TextBlock.  Coordinates are integers in     *)
(* page units; every float comparison of the source (x < w * 0.45, ...)   *)
(* is written as the equivalent comparison of integers, so the model is   *)
(* the source in exact arithmetic.                                        *)
(*                                                                         *)
(* An operation that can raise returns a record with a field "raised";    *)
(* the callers' try/except blocks read it.                                *)
(***************************************************************************)
EXTENDS Integers, Sequences, FiniteSets, TLC

VARIABLES
    page,     \* the PageResult being processed
    phase,    \* which operation was applied last to the page
    input,    \* text_blocks as handed to the layout operation (history)
    first,    \* text_blocks after the first _detect_columns call (history)
    runs,     \* number of _detect_columns calls made on the page
    ret,      \* what the last operation computed (return value, votes)
    doc,      \* one SmartExtractor call on a document: its input and progress
    line      \* one text line of characters and what the line splitter made of it

vars == <<page, phase, input, first, runs, ret, doc, line>>

\* The variables of the layout operations on one page.
pagevars == <<page, phase, input, first, runs, ret>>

-----------------------------------------------------------------------------
(* Bounds of the model *)

MaxBlocks == 4        \* fragments per page
MaxRuns == 2          \* successive _detect_columns calls on one page
MaxOrdered == 3       \* fragments of a page whose orderings are all compared

(* Constants of the program *)

GridSize == 50        \* _density_based_column_detection: grid_size
NoiseFloor == 20      \* _detect_columns_by_clustering: gap > 20
MaxBins == 20         \* _detect_columns_by_clustering: bins=min(20, ...)
KMeansMin == 10       \* _heuristic_column_detection: len(x_centers) > 10
MaxColumnCount == 4   \* clamp of every method: min(estimated_columns, 4)

-----------------------------------------------------------------------------
(* Page templates: the page geometries and fragment boxes of the           *)
(* repository's tests, with the malformed boxes the code guards against.   *)
(* A bbox is <<x0, y0, x1, y1>>; <<>> is a missing bbox (None); a shorter  *)
(* tuple is a short bbox.  tlen is len(text).                              *)
(* font_size is the font size in page units, NoFontSize when the fragment  *)
(* has none and BadFontSize when it is not a number.  kind is what the     *)
(* text looks like to the header and footer patterns: "plain" matches      *)
(* none, "digits" is a page number, "caps" an all-capitals title, "page_n" *)
(* a "Page N" mark and "blank" white space only.                           *)

NoFontSize == 0       \* font_size None (or 0.0: both are falsy)
BadFontSize == -1     \* a font_size that cannot be compared with a number

Styled(bb, n, fs, k) == [bbox |-> bb, tlen |-> n, font_size |-> fs, kind |-> k]

Shape(bb, n) == Styled(bb, n, NoFontSize, "plain")

TwoColumnShapes ==
    { Shape(<<50, 50, 350, 80>>, 13),   Shape(<<50, 100, 350, 130>>, 13),
      Shape(<<450, 50, 750, 80>>, 14),  Shape(<<450, 100, 750, 130>>, 14),
      Shape(<<>>, 16) }

SingleColumnShapes ==
    { Shape(<<50, 50, 750, 80>>, 11),   Shape(<<50, 100, 750, 130>>, 11),
      Shape(<<0, 150, 750, 180>>, 11),  Shape(<<80, 50, 800, 80>>, 11),
      Shape(<<120, 100, 800, 130>>, 11) }

ThreeColumnShapes ==
    { Shape(<<50, 50, 250, 80>>, 4),    Shape(<<350, 50, 550, 80>>, 6),
      Shape(<<650, 50, 850, 80>>, 5),   Shape(<<350, 100, 550, 130>>, 6) }

EdgeShapes ==
    { Shape(<<450, 50, 450, 80>>, 0),    Shape(<<40, 50, 210, 80>>, 11),
      Shape(<<50>>, 5),                 Shape(<<50, 50>>, 5),
      Shape(<<50, 50, 350>>, 5) }

\* The fragments of test_detect_headers_footers (header, footer, body) and
\* test_detect_headers (subtitle), a centred large-font line in the top band,
\* a small-font page number in the bottom band, and a fragment whose font
\* size is not a number.
RegionShapes ==
    { Styled(<<0, 0, 100, 30>>, 6, NoFontSize, "plain"),
      Styled(<<0, 570, 100, 600>>, 6, NoFontSize, "plain"),
      Styled(<<0, 100, 400, 200>>, 4, NoFontSize, "plain"),
      Styled(<<0, 100, 150, 120>>, 8, 16, "plain"),
      Styled(<<300, 10, 500, 40>>, 13, 18, "plain"),
      Styled(<<390, 575, 410, 590>>, 2, 10, "digits"),
      Styled(<<0, 300, 100, 320>>, 4, BadFontSize, "plain") }

\* The fragments of a page whose width is not known: a subtitle in large
\* print, body text, and a page number of no extent in the bottom band.
UnknownWidthShapes ==
    { Styled(<<0, 100, 150, 120>>, 8, 16, "plain"),
      Styled(<<0, 100, 400, 200>>, 4, NoFontSize, "plain"),
      Styled(<<400, 580, 400, 580>>, 2, 10, "digits") }

\* Small print around the bands of a page 1000 wide and high: a banner across
\* the page in the top band, a line just below the top band, and a line in
\* the bottom band.
BandEdgeShapes ==
    { Styled(<<50, 10, 950, 40>>, 40, 10, "plain"),
      Styled(<<400, 60, 600, 90>>, 12, 10, "plain"),
      Styled(<<400, 960, 600, 990>>, 12, 10, "plain") }

RegionTemplates ==
    { [width |-> 800, height |-> 600, shapes |-> RegionShapes],
      [width |-> 0, height |-> 600, shapes |-> UnknownWidthShapes],
      [width |-> 1000, height |-> 1000, shapes |-> BandEdgeShapes] }

Templates ==
    { [width |-> 800, height |-> 600, shapes |-> TwoColumnShapes],
      [width |-> 800, height |-> 600, shapes |-> SingleColumnShapes],
      [width |-> 900, height |-> 600, shapes |-> ThreeColumnShapes],
      [width |-> 800, height |-> 600, shapes |-> EdgeShapes],
      [width |-> 0, height |-> 600, shapes |-> TwoColumnShapes] }

-----------------------------------------------------------------------------
(* Helpers on sequences and sets *)

RECURSIVE SumSeq(_)
SumSeq(s) == IF s = <<>> THEN 0 ELSE Head(s) + SumSeq(Tail(s))

RECURSIVE SortedSeq(_)
SortedSeq(S) ==
    IF S = {} THEN <<>>
    ELSE LET m == CHOOSE x \in S : \A y \in S : x <= y
         IN  <<m>> \o SortedSeq(S \ {m})

RECURSIVE Concat(_)
Concat(ss) == IF ss = <<>> THEN <<>> ELSE Head(ss) \o Concat(Tail(ss))

Min2(a, b) == IF a <= b THEN a ELSE b
Max2(a, b) == IF a >= b THEN a ELSE b

Ids(blocks) == [i \in 1..Len(blocks) |-> blocks[i].id]


-----------------------------------------------------------------------------
(* models.TextBlock and models.PageResult *)

\* A TextBlock created by the extractor; column_id is an attribute the layout
\* processor adds, -1 while the block does not have it.
TextBlock(i, s) ==
    [id |-> i, bbox |-> s.bbox, tlen |-> s.tlen, font_size |-> s.font_size,
     kind |-> s.kind, block_type |-> "text", column_id |-> -1]

PageResult(w, h) ==
    [width |-> w, height |-> h, text_blocks |-> <<>>, column_processed |-> FALSE]

\* `not block.bbox`: the bbox is None or empty.
NoBBox(b) == Len(b.bbox) = 0

-----------------------------------------------------------------------------
(* Method 1: _analyze_column_layout / _detect_columns_by_clustering *)

\* np.histogram(unique_x, bins=n, range=(0, w)): bin i is [i*w/n, (i+1)*w/n),
\* the last bin is closed on the right, values outside [0, w] are not counted.
HistBin(x, n, w) == IF x = w THEN n - 1 ELSE (x * n) \div w

Histogram(ux, n, w) ==
    [i \in 0..(n - 1) |->
        Cardinality({x \in ux : x >= 0 /\ x <= w /\ HistBin(x, n, w) = i})]

\* gap_bins: bins with h < avg * 0.4, avg the mean bin count.
GapBins(hist, n) ==
    LET total == SumSeq([k \in 1..n |-> hist[k - 1]])
    IN  {i \in 0..(n - 1) : hist[i] * n * 10 < total * 4}

\* left > page_width*0.25 and right < page_width*0.75 for the bin's edges.
GapInMiddle(i, n, w) == 4 * i * w > n * w /\ 4 * (i + 1) * w < 3 * n * w

\* The consecutive differences of the sorted unique x that exceed the floor.
SignificantGaps(sx) ==
    SelectSeq([i \in 1..(Len(sx) - 1) |-> sx[i + 1] - sx[i]],
              LAMBDA g : g > NoiseFloor)

\* Large gaps that have to exceed both thresholds.
LargeGapsAboveBoth(gaps, w) ==
    LET total == SumSeq(gaps)
        n == Len(gaps)
    IN  SelectSeq(gaps, LAMBDA g : g * n * 10 > total * 11 /\ g * 5 > w)

\* large_gaps: gap > avg_gap * 1.1 or gap > page_width * 0.2
LargeGaps(gaps, w) ==
    LET total == SumSeq(gaps)
        n == Len(gaps)
    IN  SelectSeq(gaps, LAMBDA g : g * n * 10 > total * 11 \/ g * 5 > w)

_estimate_column_count(w, large_gaps) ==
    IF large_gaps = <<>> THEN 1
    ELSE LET total == SumSeq(large_gaps)
             n == Len(large_gaps)
         IN  IF total * 20 > 3 * w * n THEN 2          \* avg > page_width * 0.15
             ELSE IF total * 25 > 2 * w * n THEN 3     \* avg > page_width * 0.08
             ELSE 4

Clamp(c) == Max2(1, Min2(c, MaxColumnCount))

_detect_columns_by_clustering(x_positions, w) ==
    IF x_positions = {} THEN 1
    ELSE IF Cardinality(x_positions) < 2 THEN 1
    ELSE LET n == Min2(MaxBins, Cardinality(x_positions) \div 2 + 1)
             hist == Histogram(x_positions, n, w)
             sx == SortedSeq(x_positions)
             gaps == SignificantGaps(sx)
             large == LargeGaps(gaps, w)
         IN  IF \E i \in GapBins(hist, n) : GapInMiddle(i, n, w) THEN 2
             ELSE IF gaps = <<>> THEN 1
             ELSE IF large # <<>> THEN Clamp(_estimate_column_count(w, large))
             ELSE 1

_analyze_column_layout(p) ==
    LET blocks == p.text_blocks
        xs == {blocks[i].bbox[1] : i \in {j \in 1..Len(blocks) : Len(blocks[j].bbox) >= 2}}
    IN  IF blocks = <<>> THEN 1
        ELSE IF xs = {} THEN 1
        ELSE IF p.width = 0 THEN 1
        ELSE _detect_columns_by_clustering(xs, p.width)

-----------------------------------------------------------------------------
(* Method 2: _heuristic_column_detection *)

\* The blocks with a full bbox: `block.bbox and len(block.bbox) >= 4`.
FullBoxes(blocks) == SelectSeq(blocks, LAMBDA b : Len(b.bbox) >= 4)

\* KMeans(n_clusters=2) on the x centres, run only for more than KMeansMin
\* centres.  Its two cluster centres are means of subsets of the centres, so
\* they can be more than 0.3 * page_width apart only if the centres spread
\* that far; within that the outcome (split) is left open.
KMeansCanSplit(boxes, w) ==
    \E i, j \in 1..Len(boxes) :
        10 * ((boxes[i].bbox[1] + boxes[i].bbox[3])
              - (boxes[j].bbox[1] + boxes[j].bbox[3])) > 2 * 3 * w

\* The outcomes of KMeans the caller has to consider for the page.
SplitOutcomes(p) ==
    IF Len(FullBoxes(p.text_blocks)) > KMeansMin THEN BOOLEAN ELSE {FALSE}

\* Returns [raised, value]; raised is the ZeroDivisionError of
\* page_width / (avg_block_width * 1.1) at avg_block_width = 0.
_heuristic_column_detection(p, split) ==
    LET boxes == FullBoxes(p.text_blocks)
        n == Len(boxes)
        total == SumSeq([i \in 1..n |-> boxes[i].bbox[3] - boxes[i].bbox[1]])
        w == p.width
    IN  IF p.text_blocks = <<>> \/ w = 0 THEN [raised |-> FALSE, value |-> 1]
        ELSE IF n = 0 THEN [raised |-> FALSE, value |-> 1]
        ELSE IF n > KMeansMin /\ split /\ KMeansCanSplit(boxes, w)
             THEN [raised |-> FALSE, value |-> 2]
        ELSE IF total * 20 < 9 * w * n                \* avg < page_width * 0.45
             THEN IF total = 0
                  THEN [raised |-> TRUE, value |-> 0]
                  ELSE [raised |-> FALSE,
                        \* int(page_width / (avg_block_width * 1.1))
                        value |-> Clamp((10 * w * n) \div (11 * total))]
        ELSE [raised |-> FALSE, value |-> 1]

-----------------------------------------------------------------------------
(* Method 3: _density_based_column_detection *)

\* What one block adds to every grid cell it covers, and the cells it covers:
\* [start_col, end_col, amount], amount summed over the rows it covers.
Coverage(b, cols, rows) ==
    LET start_row == Max2(0, b.bbox[2] \div GridSize)
        end_row == Min2(rows - 1, b.bbox[4] \div GridSize)
    IN  [start_col |-> Max2(0, b.bbox[1] \div GridSize),
         end_col |-> Min2(cols - 1, b.bbox[3] \div GridSize),
         amount |-> IF start_row <= end_row
                    THEN (end_row - start_row + 1) * (IF b.tlen = 0 THEN 1 ELSE b.tlen)
                    ELSE 0]

\* column_densities[col]: the sum over the grid rows of density_matrix[row][col]
\* (entry col + 1 of the sequence).
RECURSIVE ColumnDensities(_, _, _)
ColumnDensities(cover, col, cols) ==
    IF col >= cols THEN <<>>
    ELSE <<SumSeq([i \in 1..Len(cover) |->
                     IF cover[i].start_col <= col /\ col <= cover[i].end_col
                     THEN cover[i].amount ELSE 0])>>
         \o ColumnDensities(cover, col + 1, cols)

\* The count of grid columns with density above avg_density * 0.3, mapped to a
\* column count.
_analyze_density_distribution(column_densities, cols) ==
    LET total == SumSeq(column_densities)
        high == Cardinality({c \in 1..cols : column_densities[c] * cols * 10 > total * 3})
    IN  IF high <= 1 THEN 1
        ELSE IF high <= 2 THEN 2
        ELSE IF high <= 3 THEN 3
        ELSE 4

RECURSIVE CoverageSeq(_, _, _)
CoverageSeq(boxes, cols, rows) ==
    IF boxes = <<>> THEN <<>>
    ELSE <<Coverage(Head(boxes), cols, rows)>> \o CoverageSeq(Tail(boxes), cols, rows)

_density_based_column_detection(p) ==
    IF p.text_blocks = <<>> \/ p.width = 0 \/ p.height = 0 THEN 1
    ELSE LET cols == p.width \div GridSize + 1
             rows == p.height \div GridSize + 1
             cover == CoverageSeq(FullBoxes(p.text_blocks), cols, rows)
         IN  _analyze_density_distribution(ColumnDensities(cover, 0, cols), cols)

-----------------------------------------------------------------------------
(* _improve_column_detection: the vote of the three methods *)

\* A vote that breaks ties towards the smaller count.
MostCommonSmallest(counts) ==
    LET votes(c) == Cardinality({i \in 1..Len(counts) : counts[i] = c})
        best == {counts[i] : i \in {k \in 1..Len(counts) :
                    \A j \in 1..Len(counts) : votes(counts[j]) <= votes(counts[k])}}
    IN  CHOOSE c \in best : \A d \in best : c <= d

\* Counter(column_counts).most_common(1)[0][0]: the count with the most votes,
\* the one met first in the list among those with equally many.
MostCommon(counts) ==
    LET votes(c) == Cardinality({i \in 1..Len(counts) : counts[i] = c})
        best == CHOOSE i \in 1..Len(counts) :
                    /\ \A j \in 1..Len(counts) : votes(counts[j]) <= votes(counts[i])
                    /\ \A j \in 1..(i - 1) : votes(counts[j]) < votes(counts[i])
    IN  counts[best]

\* Returns [raised, value, votes]; split is the open outcome of KMeans.
_improve_column_detection(p, split) ==
    IF p.text_blocks = <<>>
    THEN [raised |-> FALSE, value |-> 1, votes |-> <<>>]
    ELSE LET column_count_1 == _analyze_column_layout(p)
             h == _heuristic_column_detection(p, split)
             column_count_3 == _density_based_column_detection(p)
         IN  IF h.raised
             THEN [raised |-> TRUE, value |-> 0, votes |-> <<>>]
             ELSE LET column_counts == <<column_count_1, h.value, column_count_3>>
                  IN  [raised |-> FALSE, value |-> MostCommon(column_counts),
                       votes |-> column_counts]

-----------------------------------------------------------------------------
(* _assign_blocks_to_columns *)

\* The column of one block: column 0 for `not block.bbox or len(block.bbox) < 2`,
\* else the first band [i*w/n, (i+1)*w/n) holding the centre (x0 + x1) / 2,
\* and column 0 when no band holds it.
AssignedColumn(b, w, column_count) ==
    IF Len(b.bbox) < 2 THEN 0
    ELSE LET s == b.bbox[1] + b.bbox[3]
             hit == {i \in 0..(column_count - 1) :
                        2 * i * w <= s * column_count /\ s * column_count < 2 * (i + 1) * w}
         IN  IF hit = {} THEN 0 ELSE CHOOSE i \in hit : \A j \in hit : i <= j

\* block.bbox[2] of a bbox that passed `len(block.bbox) < 2` with two entries
\* raises IndexError.
AssignRaises(b) == Len(b.bbox) = 2

\* An assignment that skips the blocks without position instead of putting
\* them in the first column.
AssignSkippingNoBBox(p, column_count) ==
    LET blocks == p.text_blocks
        marked == [i \in 1..Len(blocks) |->
                     IF Len(blocks[i].bbox) < 3 THEN blocks[i]
                     ELSE [blocks[i] EXCEPT !.column_id = AssignedColumn(blocks[i], p.width, column_count)]]
    IN  [raised |-> FALSE,
         columns |-> [c \in 1..column_count |->
                         SelectSeq(marked, LAMBDA b : b.column_id = c - 1)],
         blocks |-> marked]

\* Returns [raised, columns, blocks]: the column lists, and text_blocks with the
\* column_id of every block handled before the loop ended or raised.
_assign_blocks_to_columns(p, column_count) ==
    LET blocks == p.text_blocks
        bad == {i \in 1..Len(blocks) : AssignRaises(blocks[i])}
        stop == IF bad = {} THEN Len(blocks) + 1 ELSE CHOOSE i \in bad : \A j \in bad : i <= j
        marked == [i \in 1..Len(blocks) |->
                     IF i < stop
                     THEN [blocks[i] EXCEPT !.column_id = AssignedColumn(blocks[i], p.width, column_count)]
                     ELSE blocks[i]]
        done == SubSeq(marked, 1, stop - 1)
    IN  [raised |-> bad # {},
         columns |-> [c \in 1..column_count |->
                         SelectSeq(done, LAMBDA b : b.column_id = c - 1)],
         blocks |-> marked]

-----------------------------------------------------------------------------
(* _sort_blocks_in_columns *)

\* key=lambda block: block.bbox[1] if block.bbox else 0
SortKey(b) == IF NoBBox(b) THEN 0 ELSE b.bbox[2]

\* block.bbox[1] of a one-entry bbox raises IndexError.
SortRaises(b) == Len(b.bbox) = 1

\* A sort that is not stable: a block goes before the blocks of equal key.
RECURSIVE InsertBeforeEqualKey(_, _)
InsertBeforeEqualKey(s, b) ==
    IF s = <<>> THEN <<b>>
    ELSE IF SortKey(Head(s)) < SortKey(b) THEN <<Head(s)>> \o InsertBeforeEqualKey(Tail(s), b)
    ELSE <<b>> \o s

RECURSIVE InsertByKey(_, _)
InsertByKey(s, b) ==
    IF s = <<>> THEN <<b>>
    ELSE IF SortKey(Head(s)) <= SortKey(b) THEN <<Head(s)>> \o InsertByKey(Tail(s), b)
    ELSE <<b>> \o s

\* A sort that leaves the column as it was handed over.
KeepInputOrder(column) == column

\* sorted(column, key=...): ascending and stable.
RECURSIVE Sorted(_)
Sorted(column) ==
    IF column = <<>> THEN <<>>
    ELSE InsertByKey(Sorted(SubSeq(column, 1, Len(column) - 1)), column[Len(column)])

\* Returns [raised, columns].
_sort_blocks_in_columns(columns) ==
    [raised |-> \E c \in 1..Len(columns) : \E i \in 1..Len(columns[c]) : SortRaises(columns[c][i]),
     columns |-> [c \in 1..Len(columns) |->
                     IF \E i \in 1..Len(columns[c]) : SortRaises(columns[c][i])
                     THEN columns[c] ELSE Sorted(columns[c])]]

-----------------------------------------------------------------------------
(* _merge_columns_in_reading_order and _detect_columns *)

\* A merge that starts at the second column.
MergeWithoutFirstColumn(sorted_columns, page_width) ==
    IF sorted_columns = <<>> THEN <<>> ELSE Concat(Tail(sorted_columns))

\* All of column 0, then all of column 1, ...
_merge_columns_in_reading_order(sorted_columns, page_width) ==
    IF sorted_columns = <<>> THEN <<>> ELSE Concat(sorted_columns)

\* Returns [page, count, raised]: the page as the call leaves it, the column
\* count it estimated (0 when none was computed) and whether its try block
\* caught an exception.
_detect_columns(p, split) ==
    IF p.text_blocks = <<>> \/ p.width = 0
    THEN [page |-> p, count |-> 0, raised |-> FALSE]
    ELSE LET est == _improve_column_detection(p, split)
         IN  IF est.raised THEN [page |-> p, count |-> 0, raised |-> TRUE]
             ELSE IF est.value <= 1 THEN [page |-> p, count |-> est.value, raised |-> FALSE]
             ELSE LET asg == _assign_blocks_to_columns(p, est.value)
                      marked == [p EXCEPT !.text_blocks = asg.blocks]
                      srt == _sort_blocks_in_columns(asg.columns)
                  IN  IF asg.raised \/ srt.raised
                      THEN [page |-> marked, count |-> est.value, raised |-> TRUE]
                      ELSE [page |-> [marked EXCEPT
                                        !.text_blocks =
                                            _merge_columns_in_reading_order(srt.columns, p.width),
                                        !.column_processed = TRUE],
                            count |-> est.value, raised |-> FALSE]

-----------------------------------------------------------------------------
(* _detect_headers, _detect_headers_footers, _is_likely_header/_footer *)

\* `block.font_size > 14` or `block.font_size < 12` of a font size that is
\* not a number raises TypeError.
FontRaises(b) == b.font_size = BadFontSize

\* block.font_size and block.font_size > 14
IsLargeFont(b) == b.font_size # NoFontSize /\ b.font_size > 14

\* block.font_size and block.font_size < 12
IsSmallFont(b) == b.font_size # NoFontSize /\ b.font_size < 12

\* Where a loop over blocks stops: at the first of the positions bad, those
\* of the blocks on which the loop body raises; Len(blocks) + 1 when there
\* is none.
FirstRaising(blocks, bad) ==
    IF bad = {} THEN Len(blocks) + 1 ELSE CHOOSE i \in bad : \A j \in bad : i <= j

\* Returns [raised, page]; the blocks are changed in place, so those before
\* a raising block keep the kind the loop gave them.
_detect_headers(p) ==
    LET blocks == p.text_blocks
        stop == FirstRaising(blocks, {i \in 1..Len(blocks) : FontRaises(blocks[i])})
    IN  [raised |-> stop <= Len(blocks),
         page |-> [p EXCEPT !.text_blocks =
                      [i \in 1..Len(blocks) |->
                          IF i < stop /\ IsLargeFont(blocks[i])
                          THEN [blocks[i] EXCEPT !.block_type = "title"]
                          ELSE blocks[i]]]]

\* len(block.text.strip())
StrippedLen(b) == IF b.kind = "blank" THEN 0 ELSE b.tlen

\* re.match of one of header_patterns / footer_patterns
MatchesHeaderPattern(b) == b.kind \in {"digits", "caps"}
MatchesFooterPattern(b) == b.kind \in {"digits", "page_n"}

\* abs(block_center - page_center) < page_width * 0.1
IsCentred(b, page_width) ==
    LET d == b.bbox[1] + b.bbox[3] - page_width
    IN  5 * (IF d < 0 THEN -d ELSE d) < page_width

\* The checks shared by _is_likely_header and _is_likely_footer; returns
\* [raised, value].
IsLikely(b, page_width, matches) ==
    IF b.tlen = 0 \/ StrippedLen(b) < 2 \/ StrippedLen(b) > 200
    THEN [raised |-> FALSE, value |-> FALSE]
    ELSE IF matches THEN [raised |-> FALSE, value |-> TRUE]
    ELSE IF Len(b.bbox) >= 4 /\ IsCentred(b, page_width)
    THEN [raised |-> FALSE, value |-> TRUE]
    ELSE IF FontRaises(b) THEN [raised |-> TRUE, value |-> FALSE]
    ELSE [raised |-> FALSE, value |-> IsSmallFont(b)]

_is_likely_header(b, page_width) == IsLikely(b, page_width, MatchesHeaderPattern(b))

_is_likely_footer(b, page_width) == IsLikely(b, page_width, MatchesFooterPattern(b))

\* block_height > page_height * 0.3 or block_width > page_width * 0.8
IsOversized(b, page_width, page_height) ==
    \/ 10 * (b.bbox[4] - b.bbox[2]) > 3 * page_height
    \/ 5 * (b.bbox[3] - b.bbox[1]) > 4 * page_width

\* y_top < header_threshold and y_bottom < header_threshold * 2
InHeaderBand(b, page_height) ==
    20 * b.bbox[2] < page_height /\ 10 * b.bbox[4] < page_height

\* y_bottom > footer_threshold and y_top > footer_threshold - header_threshold
InFooterBand(b, page_height) ==
    20 * b.bbox[4] > 19 * page_height /\ 10 * b.bbox[2] > 9 * page_height

\* A pass of the loop that does not skip the very large blocks.
ClassifyBlockOfAnySize(b, page_width, page_height) ==
    IF Len(b.bbox) < 4
    THEN [raised |-> FALSE, kind |-> b.block_type]
    ELSE IF InHeaderBand(b, page_height)
    THEN LET h == _is_likely_header(b, page_width)
         IN  [raised |-> h.raised, kind |-> IF h.value THEN "header" ELSE b.block_type]
    ELSE IF InFooterBand(b, page_height)
    THEN LET f == _is_likely_footer(b, page_width)
         IN  [raised |-> f.raised, kind |-> IF f.value THEN "footer" ELSE b.block_type]
    ELSE [raised |-> FALSE, kind |-> b.block_type]

\* What one pass of the loop of _detect_headers_footers does with block b:
\* [raised, kind], kind being the block_type the block has afterwards.
ClassifyBlock(b, page_width, page_height) ==
    IF Len(b.bbox) < 4 \/ IsOversized(b, page_width, page_height)
    THEN [raised |-> FALSE, kind |-> b.block_type]
    ELSE IF InHeaderBand(b, page_height)
    THEN LET h == _is_likely_header(b, page_width)
         IN  [raised |-> h.raised, kind |-> IF h.value THEN "header" ELSE b.block_type]
    ELSE IF InFooterBand(b, page_height)
    THEN LET f == _is_likely_footer(b, page_width)
         IN  [raised |-> f.raised, kind |-> IF f.value THEN "footer" ELSE b.block_type]
    ELSE [raised |-> FALSE, kind |-> b.block_type]

\* Returns [raised, page].
_detect_headers_footers(p) ==
    LET blocks == p.text_blocks
        stop == FirstRaising(blocks,
                   {i \in 1..Len(blocks) :
                       ClassifyBlock(blocks[i], p.width, p.height).raised})
    IN  [raised |-> stop <= Len(blocks),
         page |-> [p EXCEPT !.text_blocks =
                      [i \in 1..Len(blocks) |->
                          IF i < stop
                          THEN [blocks[i] EXCEPT !.block_type =
                                   ClassifyBlock(blocks[i], p.width, p.height).kind]
                          ELSE blocks[i]]]]

-----------------------------------------------------------------------------
(* LayoutProcessor.process *)

\* Returns [raised, page, count]: raised when process raises
\* LayoutDetectionError; page is the page object as the call leaves it (the
\* steps change it in place); count is the column count of _detect_columns,
\* 0 when it did not run.
process(p, detect_headers, detect_columns, split) ==
    LET titled == IF detect_headers THEN _detect_headers(p)
                  ELSE [raised |-> FALSE, page |-> p]
        classified == IF detect_headers THEN _detect_headers_footers(titled.page)
                      ELSE [raised |-> FALSE, page |-> titled.page]
        columns == _detect_columns(classified.page, split)
    IN  IF titled.raised THEN [raised |-> TRUE, page |-> titled.page, count |-> 0]
        ELSE IF classified.raised
        THEN [raised |-> TRUE, page |-> classified.page, count |-> 0]
        ELSE IF detect_columns
        THEN [raised |-> FALSE, page |-> columns.page, count |-> columns.count]
        ELSE [raised |-> FALSE, page |-> classified.page, count |-> 0]

-----------------------------------------------------------------------------
(* The state machine: a page is filled by the extractor, then a layout      *)
(* operation is applied to it.                                              *)

\* No document is being extracted.
NoDoc == [pc |-> "idle"]

\* No line is being split.
NoLine == [pc |-> "idle"]

NoRet ==
    [op |-> "none", raised |-> FALSE, count |-> 0, votes |-> <<>>, columns |-> <<>>,
     detect_headers |-> FALSE, detect_columns |-> FALSE]

ShapeOf(b) == Styled(b.bbox, b.tlen, b.font_size, b.kind)

Init ==
    /\ \E t \in Templates : page = PageResult(t.width, t.height)
    /\ phase = "extract"
    /\ input = <<>>
    /\ first = <<>>
    /\ runs = 0
    /\ ret = NoRet
    /\ doc = NoDoc
    /\ line = NoLine

\* SmartExtractor._extract_text_blocks: one more TextBlock of the page.
AppendBlock ==
    /\ phase = "extract"
    /\ Len(page.text_blocks) < MaxBlocks
    /\ \E t \in Templates : \E s \in t.shapes :
          /\ t.width = page.width /\ t.height = page.height
          /\ \A i \in 1..Len(page.text_blocks) : ShapeOf(page.text_blocks[i]) \in t.shapes
          /\ page' = [page EXCEPT !.text_blocks =
                         Append(@, TextBlock(Len(page.text_blocks) + 1, s))]
    /\ UNCHANGED <<phase, input, first, runs, ret, doc, line>>

\* A call of _improve_column_detection(page_result).
CallImproveColumnDetection ==
    /\ phase = "extract"
    /\ \E split \in SplitOutcomes(page) :
          LET est == _improve_column_detection(page, split)
          IN  ret' = [NoRet EXCEPT !.op = "estimate", !.raised = est.raised,
                                   !.count = est.value, !.votes = est.votes]
    /\ phase' = "estimated"
    /\ input' = page.text_blocks
    /\ UNCHANGED <<page, first, runs, doc, line>>

\* A call of _assign_blocks_to_columns(page_result, column_count).
CallAssignBlocksToColumns ==
    /\ phase = "extract"
    /\ \E column_count \in 1..MaxColumnCount :
          LET asg == _assign_blocks_to_columns(page, column_count)
          IN  /\ ret' = [NoRet EXCEPT !.op = "assign", !.raised = asg.raised,
                                      !.count = column_count, !.columns = asg.columns]
              /\ page' = [page EXCEPT !.text_blocks = asg.blocks]
    /\ phase' = "assigned"
    /\ input' = page.text_blocks
    /\ UNCHANGED <<first, runs, doc, line>>

\* A call of _detect_columns(page_result); it may be called again on its result.
CallDetectColumns ==
    /\ phase \in {"extract", "detected"}
    /\ runs < MaxRuns
    /\ \E split \in SplitOutcomes(page) :
          LET r == _detect_columns(page, split)
          IN  /\ page' = r.page
              /\ ret' = [NoRet EXCEPT !.op = "detect", !.raised = r.raised, !.count = r.count]
              /\ first' = IF runs = 0 THEN r.page.text_blocks ELSE first
    /\ phase' = "detected"
    /\ input' = IF runs = 0 THEN page.text_blocks ELSE input
    /\ runs' = runs + 1
    /\ UNCHANGED <<doc, line>>

Next ==
    \/ AppendBlock
    \/ CallImproveColumnDetection
    \/ CallAssignBlocksToColumns
    \/ CallDetectColumns

Spec == Init /\ [][Next]_vars

-----------------------------------------------------------------------------
(* Region classification: a page of RegionTemplates is filled, then the     *)
(* title step, the header/footer step or the whole of process is applied.   *)

InitRegion ==
    /\ \E t \in RegionTemplates : page = PageResult(t.width, t.height)
    /\ phase = "extract"
    /\ input = <<>>
    /\ first = <<>>
    /\ runs = 0
    /\ ret = NoRet
    /\ doc = NoDoc
    /\ line = NoLine

AppendRegionBlock ==
    /\ phase = "extract"
    /\ Len(page.text_blocks) < MaxBlocks
    /\ \E t \in RegionTemplates : \E s \in t.shapes :
          /\ t.width = page.width /\ t.height = page.height
          /\ page' = [page EXCEPT !.text_blocks =
                         Append(@, TextBlock(Len(page.text_blocks) + 1, s))]
    /\ UNCHANGED <<phase, input, first, runs, ret, doc, line>>

\* A call of _detect_headers(page_result).
CallDetectHeaders ==
    /\ phase = "extract"
    /\ LET r == _detect_headers(page)
       IN  /\ page' = r.page
           /\ ret' = [NoRet EXCEPT !.op = "titles", !.raised = r.raised]
    /\ phase' = "titled"
    /\ input' = page.text_blocks
    /\ UNCHANGED <<first, runs, doc, line>>

\* A call of _detect_headers_footers(page_result).
CallDetectHeadersFooters ==
    /\ phase = "extract"
    /\ LET r == _detect_headers_footers(page)
       IN  /\ page' = r.page
           /\ ret' = [NoRet EXCEPT !.op = "regions", !.raised = r.raised]
    /\ phase' = "classified"
    /\ input' = page.text_blocks
    /\ UNCHANGED <<first, runs, doc, line>>

\* A call of process(page_result, page_data) under a configuration.
CallProcess ==
    /\ phase = "extract"
    /\ \E detect_headers, detect_columns \in BOOLEAN :
       \E split \in SplitOutcomes(page) :
          LET r == process(page, detect_headers, detect_columns, split)
          IN  /\ page' = r.page
              /\ ret' = [NoRet EXCEPT !.op = "process", !.raised = r.raised,
                                      !.count = r.count,
                                      !.detect_headers = detect_headers,
                                      !.detect_columns = detect_columns]
    /\ phase' = "processed"
    /\ input' = page.text_blocks
    /\ UNCHANGED <<first, runs, doc, line>>

NextRegion ==
    \/ AppendRegionBlock
    \/ CallDetectHeaders
    \/ CallDetectHeadersFooters
    \/ CallProcess

SpecRegion == InitRegion /\ [][NextRegion]_vars

-----------------------------------------------------------------------------
(* core.SmartExtractor: extract on a file, _process_pages on a PDFData.     *)

MaxPages == 2         \* pages of a document

\* The text objects of the documents' pages: a line of body text, a page
\* number of no extent (a mark without glyph box) in small print, and an
\* object whose font size is not a number.
BodyObject == Styled(<<50, 100, 350, 130>>, 13, 12, "plain")
MarkObject == Styled(<<400, 580, 400, 580>>, 2, 10, "digits")
BrokenObject == Styled(<<0, 300, 100, 320>>, 4, BadFontSize, "plain")

\* pdf_processor.PageData.  tables and images are the numbers of tables and
\* images of the page; unusable names the collection that is not iterable
\* (None), "none" when both are lists.
PageData(text_objects, tables, unusable) ==
    [width |-> 800, height |-> 600, text_objects |-> text_objects,
     tables |-> tables, images |-> 0, unusable |-> unusable]

DocPages ==
    { PageData(<<>>, 0, "none"),
      PageData(<<BodyObject>>, 1, "none"),
      PageData(<<BodyObject, MarkObject>>, 0, "none"),
      PageData(<<BodyObject, BrokenObject>>, 1, "none"),
      PageData(<<BodyObject>>, 0, "tables"),
      PageData(<<BodyObject>>, 1, "images") }

\* What os.path and pdfplumber find at pdf_path.
FileConditions == {"ok", "missing", "not_pdf", "empty", "encrypted", "unreadable"}

\* pages[i] = None of _process_pages_parallel.
NonePage ==
    [is_none |-> TRUE, page_number |-> 0, text_blocks |-> <<>>, tables |-> 0,
     images |-> 0, width |-> 0, height |-> 0, column_processed |-> FALSE]

\* PageResult(page_number=page_num)
EmptyPageResult(page_num) == [NonePage EXCEPT !.is_none = FALSE, !.page_number = page_num]

\* _extract_text_blocks(page_data)
_extract_text_blocks(page_data) ==
    [i \in 1..Len(page_data.text_objects) |-> TextBlock(i, page_data.text_objects[i])]

\* _process_single_page after the layout step: laid is what process made of
\* the page result, [raised, page, count].
AfterLayout(page_data, laid) ==
    LET tabled == [laid.page EXCEPT !.tables = page_data.tables]
        imaged == [tabled EXCEPT !.images = page_data.images]
    IN  IF laid.raised THEN [failed |-> TRUE, result |-> laid.page]
        ELSE IF page_data.unusable = "tables" THEN [failed |-> TRUE, result |-> laid.page]
        ELSE IF page_data.unusable = "images" THEN [failed |-> TRUE, result |-> tabled]
        ELSE [failed |-> FALSE,
              result |-> [imaged EXCEPT !.width = page_data.width,
                                        !.height = page_data.height]]

\* Returns [failed, result]: the PageResult returned, and whether the try
\* block caught an exception.  Layout detection runs on the page result
\* before its width and height are set.
_process_single_page(page_data, page_num) ==
    AfterLayout(page_data,
                process([EmptyPageResult(page_num) EXCEPT
                            !.text_blocks = _extract_text_blocks(page_data)],
                        TRUE, TRUE, FALSE))

\* The text of a fragment of page n: texts are told apart by page and
\* fragment.
TextOf(n, b) == <<n, b.id>>

\* PageResult.text: the texts of the page's blocks, in order.
PageText(r) == [i \in 1..Len(r.text_blocks) |-> TextOf(r.page_number, r.text_blocks[i])]

\* _merge_results: the texts of the pages that have text, in page order.
RECURSIVE JoinPages(_)
JoinPages(rs) == IF rs = <<>> THEN <<>> ELSE PageText(Head(rs)) \o JoinPages(Tail(rs))

_merge_results(rs) == [text |-> JoinPages(rs), pages |-> rs]

\* TextProcessor._remove_headers_footers: the blocks are filtered, the text
\* of the result is left as _merge_results made it.
_remove_headers_footers(result) ==
    [result EXCEPT !.pages =
        [i \in 1..Len(result.pages) |->
            [result.pages[i] EXCEPT !.text_blocks =
                SelectSeq(@, LAMBDA b : b.block_type \notin {"header", "footer"})]]]

\* TextProcessor.post_process
post_process(result, remove_headers_footers) ==
    IF remove_headers_footers THEN _remove_headers_footers(result) ELSE result

\* _validate_pdf_file: the exception it raises, "none" when it returns.
_validate_pdf_file(file) ==
    CASE file = "missing" -> "PDFNotFoundError"
      [] file = "not_pdf" -> "SmartExtractorError"
      [] file = "empty" -> "PDFCorruptedError"
      [] OTHER -> "none"

\* PDFProcessor.process: the exception it raises.  The
\* PDFPasswordProtectedError raised for an encrypted file inside the outer
\* try is caught by `except Exception` and raised again as
\* PDFProcessingError, as every other failure.
PdfProcessRaises(file) ==
    IF file \in {"encrypted", "unreadable"} THEN "PDFProcessingError" ELSE "none"

\* The pages PDFProcessor.process returns: the first page of the file only.
PdfProcessPages(source) == IF source = <<>> THEN <<>> ELSE <<Head(source)>>

\* The except clauses of extract: the listed kinds pass, everything else is
\* raised as SmartExtractorError.
ExtractRaises(kind) ==
    IF kind \in {"PDFNotFoundError", "PDFCorruptedError", "PDFPasswordProtectedError",
                 "OCRError", "LayoutDetectionError", "TableExtractionError",
                 "ImageProcessingError", "ConfigurationError", "ValidationError",
                 "UnsupportedFormatError", "ProcessingTimeoutError"}
    THEN kind ELSE "SmartExtractorError"

\* The documents: every sequence of at most MaxPages pages.
RECURSIVE PageSeqs(_)
PageSeqs(n) ==
    IF n = 0 THEN {<<>>}
    ELSE PageSeqs(n - 1) \cup
         {Append(d, pg) : d \in {e \in PageSeqs(n - 1) : Len(e) = n - 1}, pg \in DocPages}

\* ExtractionConfig: max_workers, remove_headers_footers, enable_text_cleaning.
Configs ==
    [max_workers : {1, 2}, remove_headers_footers : BOOLEAN, enable_text_cleaning : BOOLEAN]

DefaultConfig(max_workers) ==
    [max_workers |-> max_workers, remove_headers_footers |-> TRUE,
     enable_text_cleaning |-> TRUE]

NewDoc(entry, file, source, config) ==
    [pc |-> IF entry = "extract" THEN "validate" ELSE "pages",
     entry |-> entry, file |-> file, source |-> source, config |-> config,
     pdf_data |-> IF entry = "extract" THEN <<>> ELSE source,
     pages |-> <<>>, order |-> <<>>,
     result |-> [text |-> <<>>, pages |-> <<>>], error |-> "none"]

\* Either extract(pdf_path) is called on a file, or _process_pages(pdf_data)
\* on the pages of a PDFData.
InitDoc ==
    /\ page = PageResult(0, 0)
    /\ phase = "idle"
    /\ input = <<>>
    /\ first = <<>>
    /\ runs = 0
    /\ ret = NoRet
    /\ line = NoLine
    /\ \/ \E file \in FileConditions : \E config \in Configs :
          \E source \in (IF file = "ok" THEN PageSeqs(MaxPages) ELSE {<<>>}) :
              doc = NewDoc("extract", file, source, config)
       \/ \E max_workers \in {1, 2} : \E source \in PageSeqs(MaxPages) :
              doc = NewDoc("_process_pages", "ok", source, DefaultConfig(max_workers))

\* extract: self._validate_pdf_file(pdf_path)
ValidatePdfFile ==
    /\ doc.pc = "validate"
    /\ LET e == _validate_pdf_file(doc.file)
       IN  doc' = IF e = "none" THEN [doc EXCEPT !.pc = "parse"]
                  ELSE [doc EXCEPT !.pc = "raised", !.error = ExtractRaises(e)]
    /\ UNCHANGED <<pagevars, line>>

\* extract: pdf_data = self.pdf_processor.process(pdf_path)
ParsePdf ==
    /\ doc.pc = "parse"
    /\ LET e == PdfProcessRaises(doc.file)
       IN  doc' = IF e = "none"
                  THEN [doc EXCEPT !.pc = "pages", !.pdf_data = PdfProcessPages(doc.source)]
                  ELSE [doc EXCEPT !.pc = "raised", !.error = ExtractRaises(e)]
    /\ UNCHANGED <<pagevars, line>>

\* A sequential loop that puts an empty page result in the place of a page
\* that failed.
ProcessPageSequentialReplacingFailed ==
    /\ doc.pc = "pages"
    /\ doc.config.max_workers = 1
    /\ Len(doc.pages) < Len(doc.pdf_data)
    /\ LET page_num == Len(doc.pages) + 1
           r == _process_single_page(doc.pdf_data[page_num], page_num)
       IN  doc' = [doc EXCEPT
                     !.pages = Append(@, IF r.failed THEN EmptyPageResult(page_num)
                                         ELSE r.result),
                     !.order = Append(@, page_num)]
    /\ UNCHANGED <<pagevars, line>>

\* One pass of the loop of _process_pages_sequential.
ProcessPageSequential ==
    /\ doc.pc = "pages"
    /\ doc.config.max_workers = 1
    /\ Len(doc.pages) < Len(doc.pdf_data)
    /\ LET page_num == Len(doc.pages) + 1
       IN  doc' = [doc EXCEPT
                     !.pages = Append(@, _process_single_page(doc.pdf_data[page_num],
                                                              page_num).result),
                     !.order = Append(@, page_num)]
    /\ UNCHANGED <<pagevars, line>>

\* _process_pages_parallel: pages = [None] * n and one task per page.
SubmitPages ==
    /\ doc.pc = "pages"
    /\ doc.config.max_workers > 1
    /\ doc' = [doc EXCEPT !.pc = "collecting",
                          !.pages = [i \in 1..Len(doc.pdf_data) |-> NonePage]]
    /\ UNCHANGED <<pagevars, line>>

\* A collection that stores the results in the order the tasks complete.
CollectInCompletionOrder ==
    /\ doc.pc = "collecting"
    /\ \E page_num \in 1..Len(doc.pages) :
          /\ \A k \in 1..Len(doc.order) : doc.order[k] # page_num
          /\ doc' = [doc EXCEPT
                       !.pages[Len(doc.order) + 1] =
                           _process_single_page(doc.pdf_data[page_num], page_num).result,
                       !.order = Append(@, page_num)]
    /\ UNCHANGED <<pagevars, line>>

\* as_completed hands over the task of some page that is not collected yet.
CollectPage ==
    /\ doc.pc = "collecting"
    /\ \E page_num \in 1..Len(doc.pages) :
          /\ doc.pages[page_num].is_none
          /\ doc' = [doc EXCEPT
                       !.pages[page_num] =
                           _process_single_page(doc.pdf_data[page_num], page_num).result,
                       !.order = Append(@, page_num)]
    /\ UNCHANGED <<pagevars, line>>

\* return pages
ReturnPages ==
    /\ \/ doc.pc = "pages" /\ doc.config.max_workers = 1
                           /\ Len(doc.pages) = Len(doc.pdf_data)
       \/ doc.pc = "collecting" /\ \A i \in 1..Len(doc.pages) : ~doc.pages[i].is_none
    /\ doc' = [doc EXCEPT !.pc = IF doc.entry = "extract" THEN "collected" ELSE "returned"]
    /\ UNCHANGED <<pagevars, line>>

\* extract: result = self._merge_results(pages, pdf_data.metadata)
MergeResults ==
    /\ doc.pc = "collected"
    /\ doc' = [doc EXCEPT !.pc = "merged", !.result = _merge_results(doc.pages)]
    /\ UNCHANGED <<pagevars, line>>

\* extract: if self.text_processor: result = self.text_processor.post_process(result)
PostProcess ==
    /\ doc.pc = "merged"
    /\ doc' = [doc EXCEPT
                 !.pc = "done",
                 !.result = IF doc.config.enable_text_cleaning
                            THEN post_process(@, doc.config.remove_headers_footers)
                            ELSE @]
    /\ UNCHANGED <<pagevars, line>>

NextDoc ==
    \/ ValidatePdfFile
    \/ ParsePdf
    \/ ProcessPageSequential
    \/ SubmitPages
    \/ CollectPage
    \/ ReturnPages
    \/ MergeResults
    \/ PostProcess

SpecDoc == InitDoc /\ [][NextDoc]_vars

-----------------------------------------------------------------------------
(* The line splitter: PDFProcessor._split_line_by_columns                  *)
(*                                                                         *)
(* A line is the run of characters the upstream font grouping hands over.  *)
(* A character is its left edge x0, its right edge x1 and its text.  The   *)
(* ratios are kept in percent, so that every comparison is exact.          *)

MaxChars == 6

ShortLine      == 3    \* len(chars) <= 3: never split
MinGapRatio    == 15   \* min_gap_ratio = 0.15
SingleGapRatio == 20   \* page_width * 0.20
MinSideChars   == 2    \* len(left_chars) < 2
MinSideText    == 3    \* len(left_text) < 3
MaxJoinedLen   == 100  \* len(combined_text) < 100

CharTexts  == {"o", "R", " "}
CharStarts == {0, 10, 20, 100, 190, 200, 210}
PageWidths == {400, 750, 800}

Char(x0, text) == [x0 |-> x0, x1 |-> x0 + 10, text |-> text]

Connectors ==
    { <<"a", "n", "d">>, <<"o", "r">>, <<"b", "u", "t">>,
      <<"h", "o", "w", "e", "v", "e", "r">>,
      <<"t", "h", "e", "r", "e", "f", "o", "r", "e">>,
      <<"t", "h", "u", "s">>, <<"h", "e", "n", "c", "e">> }

\* sorted(chars, key=x0): a stable insertion sort.
RECURSIVE InsertByX0(_, _)
InsertByX0(sorted, c) ==
    IF sorted = <<>> THEN <<c>>
    ELSE IF c.x0 < Head(sorted).x0 THEN <<c>> \o sorted
    ELSE <<Head(sorted)>> \o InsertByX0(Tail(sorted), c)

RECURSIVE SortedByX0(_)
SortedByX0(chars) ==
    IF chars = <<>> THEN <<>>
    ELSE InsertByX0(SortedByX0(SubSeq(chars, 1, Len(chars) - 1)), chars[Len(chars)])

\* ''.join(char['text'] for char in chars)
JoinText(chars) == [i \in 1..Len(chars) |-> chars[i].text]

\* str.strip()
Strip(text) ==
    LET inked == {i \in 1..Len(text) : text[i] # " "}
    IN IF inked = {} THEN <<>>
       ELSE SubSeq(text,
                   CHOOSE i \in inked : \A j \in inked : i <= j,
                   CHOOSE i \in inked : \A j \in inked : j <= i)

\* str.lower()
Lower(text) ==
    [i \in 1..Len(text) |-> IF text[i] = "R" THEN "r"
                            ELSE IF text[i] = "O" THEN "o"
                            ELSE text[i]]

\* connector in text
Contains(text, word) ==
    \E i \in 0..(Len(text) - Len(word)) : SubSeq(text, i + 1, i + Len(word)) = word

\* gaps[idx] of the code, for idx = i - 1: the space after the i-th character.
GapAfter(chars, i) == chars[i + 1].x0 - chars[i].x1

\* gap > min_gap, with min_gap = page_width * min_gap_ratio
LineLargeGaps(chars, page_width) ==
    {i \in 1..(Len(chars) - 1) : GapAfter(chars, i) * 100 > page_width * MinGapRatio}

\* The single-gap test without its look at the texts of the two sides.
SingleGapRejectedBySizeOnly(chars, page_width, i) ==
    \/ GapAfter(chars, i) * 100 < page_width * SingleGapRatio
    \/ i < MinSideChars
    \/ Len(chars) - i < MinSideChars

\* The stricter test applied when the line has exactly one large gap:
\* TRUE when the line is returned whole.
SingleGapRejected(chars, page_width, i) ==
    LET left_chars  == SubSeq(chars, 1, i)
        right_chars == SubSeq(chars, i + 1, Len(chars))
        left_text   == Strip(JoinText(left_chars))
        right_text  == Strip(JoinText(right_chars))
        combined_text == left_text \o <<" ">> \o right_text
    IN IF GapAfter(chars, i) * 100 < page_width * SingleGapRatio THEN TRUE
       ELSE IF Len(left_chars) < MinSideChars \/ Len(right_chars) < MinSideChars THEN TRUE
       ELSE IF Len(left_text) < MinSideText \/ Len(right_text) < MinSideText THEN TRUE
       ELSE /\ \E connector \in Connectors : Contains(Lower(combined_text), connector)
            /\ Len(combined_text) < MaxJoinedLen

\* A cut that keeps only the groups of two characters or more.
CutAtDroppingSingles(chars, cuts) ==
    LET split_indices == SortedSeq({0} \cup cuts \cup {Len(chars)})
        column_groups == [k \in 1..(Len(split_indices) - 1) |->
                             SubSeq(chars, split_indices[k] + 1, split_indices[k + 1])]
        Several(g)    == Len(g) > 1
    IN SelectSeq(column_groups, Several)

\* chars[start:end] for consecutive split indices, empty groups dropped.
CutAt(chars, cuts) ==
    LET split_indices == SortedSeq({0} \cup cuts \cup {Len(chars)})
        column_groups == [k \in 1..(Len(split_indices) - 1) |->
                             SubSeq(chars, split_indices[k] + 1, split_indices[k + 1])]
        NonEmpty(g)   == g # <<>>
    IN SelectSeq(column_groups, NonEmpty)

\* The part of _split_line_by_columns after the short-line return.
SplitLongLine(chars, page_width) ==
    LET large_gaps == LineLargeGaps(chars, page_width)
    IN IF large_gaps = {} THEN <<chars>>
       ELSE IF /\ Cardinality(large_gaps) = 1
               /\ SingleGapRejected(chars, page_width, CHOOSE i \in large_gaps : TRUE)
            THEN <<chars>>
       ELSE CutAt(chars, large_gaps)

\* The splitter without its short-line return.
SplitShortLinesToo(chars, page_width) ==
    IF chars = <<>> THEN <<>>
    ELSE SplitLongLine(SortedByX0(chars), page_width)

_split_line_by_columns(chars, page_width) ==
    IF chars = <<>> THEN <<>>
    ELSE LET sorted == SortedByX0(chars)
         IN IF Len(sorted) <= ShortLine THEN <<sorted>>
            ELSE SplitLongLine(sorted, page_width)

Reversed(chars) == [i \in 1..Len(chars) |-> chars[Len(chars) + 1 - i]]

InitLine ==
    /\ page = PageResult(0, 0)
    /\ phase = "idle"
    /\ input = <<>>
    /\ first = <<>>
    /\ runs = 0
    /\ ret = NoRet
    /\ doc = NoDoc
    /\ \E page_width \in PageWidths :
           line = [pc |-> "chars", chars |-> <<>>, page_width |-> page_width,
                   pieces |-> <<>>]

\* The upstream grouping adds the next character of the line, left to right.
AppendChar ==
    /\ line.pc = "chars"
    /\ Len(line.chars) < MaxChars
    /\ \E x0 \in CharStarts, text \in CharTexts :
           /\ \A i \in 1..Len(line.chars) : line.chars[i].x1 <= x0
           /\ line' = [line EXCEPT !.chars = Append(@, Char(x0, text))]
    /\ UNCHANGED <<pagevars, doc>>

\* _extract_text_objects calls the splitter on the line; the characters reach
\* it in the order of the page's character list, which is not always left to
\* right.
SplitLine ==
    /\ line.pc = "chars"
    /\ \E chars \in {line.chars, Reversed(line.chars)} :
           line' = [line EXCEPT !.pc = "split",
                                !.chars = chars,
                                !.pieces = _split_line_by_columns(chars, line.page_width)]
    /\ UNCHANGED <<pagevars, doc>>

NextLine ==
    \/ AppendChar
    \/ SplitLine

SpecLine == InitLine /\ [][NextLine]_vars

-----------------------------------------------------------------------------
(* PDFProcessor._extract_text_objects: from the characters of a page to    *)
(* its text objects, the oversized pieces cut in two by KMeans             *)

MaxGroup == 11

OversizeRatio == 60   \* block_width > page.width * 0.60
OversizeChars == 10   \* len(col_group) > 10
MinSubChars   == 3    \* len(sub_chars) < 3: the cluster is skipped

\* The gaps the characters of the modelled pages leave between each other:
\* one tight or loose spacing for the whole page, and one wide gap.
Spacings == {0, 50}
WideGapWidth == 600
ObjectPageWidth == 800

\* _calculate_bbox, its horizontal part: [x0, x1].
_calculate_bbox(chars) ==
    IF chars = <<>> THEN <<0, 0>>
    ELSE <<CHOOSE a \in {chars[i].x0 : i \in 1..Len(chars)} :
               \A i \in 1..Len(chars) : a <= chars[i].x0,
           CHOOSE b \in {chars[i].x1 : i \in 1..Len(chars)} :
               \A i \in 1..Len(chars) : chars[i].x1 <= b>>

\* TextObject(text=..., bbox=...): the text is kept as the characters it is
\* joined from.
TextObject(chars) == [chars |-> chars, bbox |-> _calculate_bbox(chars)]

\* TextObject(text=page.extract_text(), bbox=[0, 0, page.width, page.height])
PageTextObject(page_width) == [chars |-> <<>>, bbox |-> <<0, page_width>>]

SumX0(chars, S) == SumSeq([i \in 1..Cardinality(S) |-> chars[SortedSeq(S)[i]].x0])

\* A labelling Lloyd's iteration can stop at: both clusters hold a character
\* and every character is at least as near to the mean of its own cluster as
\* to the mean of the other.  zero is the set of positions labelled 0.
IsStableLabelling(chars, zero) ==
    LET all  == 1..Len(chars)
        one  == all \ zero
        n0   == Cardinality(zero)
        n1   == Cardinality(one)
        s0   == SumX0(chars, zero)
        s1   == SumX0(chars, one)
        \* x is on the side of mean 0 of the midpoint of the two means
        NearZero(x) == IF s0 * n1 <= s1 * n0
                       THEN 2 * x * n0 * n1 <= s0 * n1 + s1 * n0
                       ELSE 2 * x * n0 * n1 >= s0 * n1 + s1 * n0
        NearOne(x)  == IF s0 * n1 <= s1 * n0
                       THEN 2 * x * n0 * n1 >= s0 * n1 + s1 * n0
                       ELSE 2 * x * n0 * n1 <= s0 * n1 + s1 * n0
    IN  /\ zero # {} /\ one # {}
        /\ \A i \in zero : NearZero(chars[i].x0)
        /\ \A i \in one : NearOne(chars[i].x0)

\* The cuts of a piece, itself sorted by x0, into a left and a right part.
Cuts(chars) ==
    {1..k : k \in 1..(Len(chars) - 1)} \cup {(k + 1)..Len(chars) : k \in 1..(Len(chars) - 1)}

\* What KMeans(n_clusters=2, random_state=0).fit(X) can end with: an
\* exception, or labels of a stable labelling.
KMeansOutcomes(chars) ==
    {[raised |-> TRUE, zero |-> {}]} \cup
    {[raised |-> FALSE, zero |-> z] : z \in {c \in Cuts(chars) : IsStableLabelling(chars, c)}}

Pick(chars, S) == [i \in 1..Cardinality(S) |-> chars[SortedSeq(S)[i]]]

\* block_width > page.width * 0.60 and len(col_group) > 10
IsOversizedGroup(col_group, page_width) ==
    LET bbox == _calculate_bbox(col_group)
    IN  /\ (bbox[2] - bbox[1]) * 100 > page_width * OversizeRatio
        /\ Len(col_group) > OversizeChars

\* The two clusters, the one of the smaller mean x0 first (the mean of an
\* empty cluster is 0).
OrderedClusters(col_group, zero) ==
    LET left_chars  == Pick(col_group, zero)
        right_chars == Pick(col_group, (1..Len(col_group)) \ zero)
        swap == IF left_chars = <<>> \/ right_chars = <<>>
                THEN (IF left_chars = <<>> THEN FALSE
                      ELSE SumX0(col_group, zero) > 0)
                ELSE SumX0(col_group, zero) * Len(right_chars) >
                     SumX0(col_group, (1..Len(col_group)) \ zero) * Len(left_chars)
    IN  IF swap THEN <<right_chars, left_chars>> ELSE <<left_chars, right_chars>>

\* The text objects appended for an oversized piece whose clustering did
\* not raise.
SplitOversized(col_group, outcome) ==
    LET clusters == OrderedClusters(col_group, outcome.zero)
        Held(sub_chars) == Len(sub_chars) >= MinSubChars
    IN  [i \in 1..Len(SelectSeq(clusters, Held)) |->
            TextObject(SelectSeq(clusters, Held)[i])]

\* The text objects one piece of a line contributes.
ObjectsOfGroup(col_group, page_width, outcome) ==
    IF Strip(JoinText(col_group)) = <<>> THEN <<>>
    ELSE IF IsOversizedGroup(col_group, page_width) /\ ~outcome.raised
    THEN SplitOversized(col_group, outcome)
    ELSE <<TextObject(col_group)>>

\* outcomes[k] is the outcome of KMeans on the k-th piece of the line.
_extract_text_objects(chars, page_width, has_text, outcomes) ==
    IF chars = <<>>
    THEN (IF has_text THEN <<PageTextObject(page_width)>> ELSE <<>>)
    ELSE LET column_groups == _split_line_by_columns(chars, page_width)
         IN  Concat([k \in 1..Len(column_groups) |->
                        ObjectsOfGroup(column_groups[k], page_width, outcomes[k])])

\* The outcomes of KMeans on every piece of a line.
OutcomesOfLine(chars, page_width) ==
    LET column_groups == _split_line_by_columns(chars, page_width)
    IN  {o \in [1..Len(column_groups) ->
                   UNION {KMeansOutcomes(column_groups[k]) : k \in 1..Len(column_groups)}] :
            \A k \in 1..Len(column_groups) : o[k] \in KMeansOutcomes(column_groups[k])}

InitObject ==
    /\ page = PageResult(0, 0)
    /\ phase = "idle"
    /\ input = <<>>
    /\ first = <<>>
    /\ runs = 0
    /\ ret = NoRet
    /\ doc = NoDoc
    /\ \E spacing \in Spacings :
           line = [pc |-> "page", chars |-> <<>>, page_width |-> ObjectPageWidth,
                   spacing |-> spacing, wide |-> FALSE, pieces |-> <<>>,
                   outcomes |-> <<>>, objects |-> <<>>]

\* The page's line has one more character, at the page's spacing from the
\* one before.
AppendNearChar ==
    /\ line.pc = "page"
    /\ Len(line.chars) < MaxGroup
    /\ LET x0 == IF line.chars = <<>> THEN 0
                 ELSE line.chars[Len(line.chars)].x1 + line.spacing
       IN  line' = [line EXCEPT !.chars = Append(@, Char(x0, "o"))]
    /\ UNCHANGED <<pagevars, doc>>

\* The page's line has one more character, across the one wide gap of the
\* line.
AppendFarChar ==
    /\ line.pc = "page"
    /\ Len(line.chars) < MaxGroup
    /\ line.chars # <<>>
    /\ ~line.wide
    /\ line' = [line EXCEPT
                  !.chars = Append(@, Char(line.chars[Len(line.chars)].x1 + WideGapWidth, "o")),
                  !.wide = TRUE]
    /\ UNCHANGED <<pagevars, doc>>

\* _process_page calls _extract_text_objects(page).
ExtractTextObjects ==
    /\ line.pc = "page"
    /\ \E has_text \in BOOLEAN :
       \E outcomes \in OutcomesOfLine(line.chars, line.page_width) :
           line' = [line EXCEPT
                      !.pc = "objects",
                      !.pieces = _split_line_by_columns(line.chars, line.page_width),
                      !.outcomes = outcomes,
                      !.objects = _extract_text_objects(line.chars, line.page_width,
                                                        has_text, outcomes)]
    /\ UNCHANGED <<pagevars, doc>>

NextObject ==
    \/ AppendNearChar
    \/ AppendFarChar
    \/ ExtractTextObjects

SpecObject == InitObject /\ [][NextObject]_vars

-----------------------------------------------------------------------------
(* Row grouping: the tests and the demo call                                *)
(* LayoutProcessor._group_blocks_by_rows(blocks)                            *)

\* The blocks of test_group_blocks_by_rows: a grid of two rows and two
\* columns.
GridShapes ==
    { Shape(<<50, 100, 200, 130>>, 9), Shape(<<250, 100, 400, 130>>, 10),
      Shape(<<50, 150, 200, 180>>, 9), Shape(<<250, 150, 400, 180>>, 10) }

\* The class LayoutProcessor defines no _group_blocks_by_rows and no
\* __getattr__: looking the attribute up raises AttributeError before any
\* block is read.  Returns [raised, rows].
_group_blocks_by_rows(blocks) == [raised |-> TRUE, rows |-> <<>>]

InitRows ==
    /\ page = PageResult(0, 0)
    /\ phase = "blocks"
    /\ input = <<>>
    /\ first = <<>>
    /\ runs = 0
    /\ ret = NoRet
    /\ doc = NoDoc
    /\ line = NoLine

\* The caller builds its list of blocks.
AppendGridBlock ==
    /\ phase = "blocks"
    /\ Len(input) < MaxBlocks
    /\ \E s \in GridShapes :
          /\ \A i \in 1..Len(input) : ShapeOf(input[i]) # s
          /\ input' = Append(input, TextBlock(Len(input) + 1, s))
    /\ UNCHANGED <<page, phase, first, runs, ret, doc, line>>

\* row_groups = processor._group_blocks_by_rows(blocks)
CallGroupBlocksByRows ==
    /\ phase = "blocks"
    /\ LET r == _group_blocks_by_rows(input)
       IN  ret' = [raised |-> r.raised, rows |-> r.rows, op |-> "_group_blocks_by_rows"]
    /\ phase' = "rows"
    /\ UNCHANGED <<page, input, first, runs, doc, line>>

NextRows ==
    \/ AppendGridBlock
    \/ CallGroupBlocksByRows

SpecRows == InitRows /\ [][NextRows]_vars

-----------------------------------------------------------------------------
(* Vocabulary of the properties *)

Positions(blocks, id) == {i \in 1..Len(blocks) : blocks[i].id = id}
PosOf(blocks, id) == CHOOSE i \in 1..Len(blocks) : blocks[i].id = id
BBoxes(blocks) == [i \in 1..Len(blocks) |-> blocks[i].bbox]
BBoxSet(blocks) == {blocks[i].bbox : i \in 1..Len(blocks)}

\* b is a of the input again: same fragment, same text and position.
SameFragment(a, b) == a.id = b.id /\ a.bbox = b.bbox /\ a.tlen = b.tlen

\* out holds every fragment of inp exactly once, and nothing else.
IsPermutation(out, inp) ==
    /\ Len(out) = Len(inp)
    /\ \A i \in 1..Len(inp) :
          /\ Cardinality(Positions(out, inp[i].id)) = 1
          /\ SameFragment(inp[i], out[PosOf(out, inp[i].id)])

\* The column a fragment belongs to: the band of its horizontal centre, and
\* column 0 when it has no usable bbox.
ColumnOf(b, w, n) == IF Len(b.bbox) < 3 THEN 0 ELSE AssignedColumn(b, w, n)

\* A fragment's top edge, 0 when it has none.
TopY(b) == IF Len(b.bbox) >= 2 THEN b.bbox[2] ELSE 0

\* The code defines the column and the sort key of a fragment with a full
\* bbox or with none.
Placed(b) == Len(b.bbox) \in {0, 4}

\* The call of _detect_columns on the extracted page has returned.
DetectedOnce == phase = "detected" /\ runs = 1

\* The three methods ran and the vote returned.
Voted == phase = "estimated" /\ ~ret.raised /\ ret.votes # <<>>

AllDisagree(votes) ==
    votes[1] # votes[2] /\ votes[1] # votes[3] /\ votes[2] # votes[3]

\* No count has more votes than c.
Plurality(votes, c) ==
    \A d \in {votes[i] : i \in 1..Len(votes)} :
        Cardinality({i \in 1..Len(votes) : votes[i] = d})
            <= Cardinality({i \in 1..Len(votes) : votes[i] = c})

\* The pages of the tests test_two_column_layout and test_three_column_layout,
\* in any input order.
Grid2x2 ==
    << <<50, 50, 350, 80>>, <<50, 100, 350, 130>>,
       <<450, 50, 750, 80>>, <<450, 100, 750, 130>> >>

IsGrid2x2 ==
    page.width = 800 /\ Len(input) = 4 /\ BBoxSet(input) = {Grid2x2[i] : i \in 1..4}

Thirds == << <<50, 50, 250, 80>>, <<350, 50, 550, 80>>, <<650, 50, 850, 80>> >>

IsThirds ==
    page.width = 900 /\ Len(input) = 3 /\ BBoxSet(input) = {Thirds[i] : i \in 1..3}

\* Every fragment has a full bbox and, on its row, a fragment of the other
\* half of the page.
SameRows ==
    /\ \A i \in 1..Len(input) : Len(input[i].bbox) = 4
    /\ \A i \in 1..Len(input) : \E j \in 1..Len(input) :
          /\ TopY(input[j]) = TopY(input[i])
          /\ ColumnOf(input[j], page.width, 2) # ColumnOf(input[i], page.width, 2)

\* The fragment spans at least 80% of the page width.
NearlyFullWidth(b, w) == Len(b.bbox) = 4 /\ (b.bbox[3] - b.bbox[1]) * 5 >= w * 4

-----------------------------------------------------------------------------
C2_AssignPartitions ==
    phase = "assigned" =>
        /\ ~ret.raised
        /\ Len(ret.columns) = ret.count
        /\ IsPermutation(Concat(ret.columns), input)

(* C3: the text_blocks after _detect_columns are a permutation of those     *)
(* before it, fragments without a bbox included, and a fragment without a   *)
(* bbox is in column 0: it never gets another column_id, and on a reordered *)
(* page it has column_id 0 and stands among the fragments of column 0.      *)
C3_DetectKeepsFragments ==
    phase = "detected" =>
        /\ IsPermutation(page.text_blocks, input)
        /\ \A i \in 1..Len(page.text_blocks) :
              NoBBox(page.text_blocks[i]) =>
                  /\ page.text_blocks[i].column_id \in {-1, 0}
                  /\ page.column_processed =>
                        /\ page.text_blocks[i].column_id = 0
                        /\ \A j \in 1..(i - 1) : page.text_blocks[j].column_id = 0

\* A reordered page with a fragment without a bbox that stood, in the input,
\* behind a fragment of a later column.
C3_Witness ==
    /\ DetectedOnce
    /\ page.column_processed
    /\ Ids(page.text_blocks) # Ids(input)
    /\ \E i, j \in 1..Len(input) :
          /\ i < j
          /\ NoBBox(input[j])
          /\ ColumnOf(input[i], page.width, ret.count) > 0

(* C4: _improve_column_detection never fails and returns a count in 1..4,   *)
(* for every fragment list (zero-width fragments and fragments without a    *)
(* bbox included).                                                          *)
C4_EstimateNeverFails ==
    phase = "estimated" => (~ret.raised /\ ret.count \in 1..MaxColumnCount)

(* C5 as stated: the final count is the plurality of the three methods'     *)
(* results, and the smallest count when all three disagree.                 *)
C5_TieToSmallest ==
    Voted =>
        /\ Plurality(ret.votes, ret.count)
        /\ AllDisagree(ret.votes) => \A i \in 1..3 : ret.count <= ret.votes[i]

(* C5 amended: the final count is the plurality of the three methods'       *)
(* results, and the first method's (gap-histogram) count when all three     *)
(* disagree.                                                                *)
C5_TieToFirstMethod ==
    Voted =>
        /\ Plurality(ret.votes, ret.count)
        /\ AllDisagree(ret.votes) => ret.count = ret.votes[1]

\* The three methods disagree and the first one's count is not the smallest.
C5_Witness ==
    /\ Voted
    /\ AllDisagree(ret.votes)
    /\ \E i \in 2..3 : ret.votes[i] < ret.votes[1]

(* C6: when more than one column is detected the output lists the fragments *)
(* of column 0, then of column 1, ...; within a column by non-decreasing    *)
(* top-edge y, fragments of equal y in their input order (stated for the    *)
(* fragments with a full bbox or none).  The 2x2 grid on an 800-wide page   *)
(* is estimated as 2 columns and comes out left-top, left-bottom,           *)
(* right-top, right-bottom.                                                 *)
C6_StackedColumns ==
    DetectedOnce =>
        /\ ret.count > 1 =>
              \A i, j \in 1..Len(page.text_blocks) :
                  LET a == page.text_blocks[i]
                      b == page.text_blocks[j]
                      ca == ColumnOf(a, page.width, ret.count)
                      cb == ColumnOf(b, page.width, ret.count)
                  IN  (i < j /\ Placed(a) /\ Placed(b)) =>
                        /\ ca <= cb
                        /\ ca = cb => TopY(a) <= TopY(b)
                        /\ (ca = cb /\ TopY(a) = TopY(b)) =>
                              PosOf(input, a.id) < PosOf(input, b.id)
        /\ IsGrid2x2 => (ret.count = 2 /\ BBoxes(page.text_blocks) = Grid2x2)

(* C7: on a page detected as two columns whose left and right fragments sit *)
(* on the same rows, the output goes row by row: rows top to bottom, in a   *)
(* row the left fragment before the right one.                              *)
C7_RowByRow ==
    (DetectedOnce /\ ret.count = 2 /\ SameRows) =>
        \A i, j \in 1..Len(page.text_blocks) :
            LET a == page.text_blocks[i]
                b == page.text_blocks[j]
            IN  i < j =>
                  /\ TopY(a) <= TopY(b)
                  /\ TopY(a) = TopY(b) => a.bbox[1] <= b.bbox[1]

(* C8: if every fragment spans nearly the full page width, the estimate is  *)
(* 1 and _detect_columns returns the fragments in their input order and     *)
(* does not mark the page as column-reordered.                              *)
C8_FullWidthUnchanged ==
    (/\ DetectedOnce
     /\ input # <<>> /\ page.width > 0
     /\ \A i \in 1..Len(input) : NearlyFullWidth(input[i], page.width)) =>
        /\ ret.count = 1 /\ ~ret.raised
        /\ Ids(page.text_blocks) = Ids(input)
        /\ ~page.column_processed

(* C9: three fragments at the thirds of a 900-wide page are estimated as 3  *)
(* columns and come out left to right.                                      *)
C9_ThreeColumns ==
    (DetectedOnce /\ IsThirds) =>
        (ret.count = 3 /\ BBoxes(page.text_blocks) = Thirds)

(* C10: a page with fewer than 2 fragments gets column count 1 from the     *)
(* estimator, whatever the fragment's width and position (stated for the    *)
(* calls that return; the call that fails is C4's).                         *)
C10_FewFragmentsOneColumn ==
    (phase = "estimated" /\ Len(input) < 2 /\ ~ret.raised) => ret.count = 1

(* C11: _detect_columns on a page without fragments returns an empty list,  *)
(* and on a page with one fragment returns that fragment alone, with its    *)
(* text and position as they were; the call returns in both cases (an       *)
(* exception inside it is caught, ret.raised, and the page is returned).    *)
C11_EmptyAndSingle ==
    (DetectedOnce /\ Len(input) <= 1) =>
        /\ Len(page.text_blocks) = Len(input)
        /\ \A i \in 1..Len(input) : SameFragment(input[i], page.text_blocks[i])

\* A single fragment went through estimation (more than one column),
\* assignment, sorting and merging.
C11_Witness ==
    /\ DetectedOnce
    /\ Len(input) = 1
    /\ ret.count > 1
    /\ page.column_processed

\* Every ordering of the fragment list s.
Orderings(s) ==
    {[i \in 1..Len(s) |-> s[f[i]]] : f \in Permutations(1..Len(s))}

\* What _detect_columns returns for the extracted page with its fragments
\* in the order q.
DetectOn(q, split) ==
    _detect_columns([page EXCEPT !.text_blocks = q, !.column_processed = FALSE], split)

\* a stands before b in blocks.
Before(blocks, a, b) == PosOf(blocks, a) < PosOf(blocks, b)

\* The extracted page went through _detect_columns once and is small enough
\* for all its orderings to be compared.
DetectedSmall == DetectedOnce /\ Len(input) <= MaxOrdered

KindOf(blocks, id) == blocks[PosOf(blocks, id)].block_type

\* What the claims call short plain text: 2 to 200 characters, no pattern.
ShortPlain(b) == b.kind = "plain" /\ b.tlen >= 2 /\ b.tlen <= 200

\* The fragment lies in the top (bottom) 5% band: b.bbox within
\* [0, height/20] resp. [19*height/20, height].
InTopBand(b, h) == Len(b.bbox) = 4 /\ b.bbox[2] >= 0 /\ 20 * b.bbox[4] <= h
InBottomBand(b, h) == Len(b.bbox) = 4 /\ 20 * b.bbox[2] >= 19 * h /\ b.bbox[4] <= h

(* C13: a fragment that is not oversized and lies in the top 5% band with   *)
(* short plain text is classified header by _detect_headers_footers, one in *)
(* the bottom 5% band footer, even without font size, centring or pattern;  *)
(* a fragment in neither band keeps its kind.                               *)
C13_BandsClassify ==
    (phase = "classified" /\ ~ret.raised) =>
        \A i \in 1..Len(input) :
            LET b == input[i]
                kind == KindOf(page.text_blocks, b.id)
                sized == Len(b.bbox) = 4 /\ ~IsOversized(b, page.width, page.height)
            IN  /\ (sized /\ ShortPlain(b) /\ InTopBand(b, page.height)) => kind = "header"
                /\ (sized /\ ShortPlain(b) /\ InBottomBand(b, page.height)) => kind = "footer"
                /\ (Len(b.bbox) = 4 /\ ~InHeaderBand(b, page.height)
                        /\ ~InFooterBand(b, page.height)) => kind = b.block_type

\* The texts of the fragments the layout step classified header or footer,
\* over the page results rs.
HeaderFooterTexts(rs) ==
    UNION { {TextOf(rs[i].page_number, rs[i].text_blocks[j]) :
                j \in {k \in 1..Len(rs[i].text_blocks) :
                          rs[i].text_blocks[k].block_type \in {"header", "footer"}}} :
            i \in 1..Len(rs) }

\* extract has returned its result and the text processor ran with
\* remove_headers_footers set.
RemovalDone ==
    /\ doc.pc = "done"
    /\ doc.config.enable_text_cleaning
    /\ doc.config.remove_headers_footers

(* C14: after extraction with the remove-headers/footers policy active, no  *)
(* page's fragment list holds a fragment classified header or footer, and   *)
(* the text of the result holds the text of no such fragment.               *)
C14_HeadersFootersRemoved ==
    RemovalDone =>
        /\ \A i \in 1..Len(doc.result.pages) :
              \A j \in 1..Len(doc.result.pages[i].text_blocks) :
                  doc.result.pages[i].text_blocks[j].block_type \notin {"header", "footer"}
        /\ \A k \in 1..Len(doc.result.text) :
              doc.result.text[k] \notin HeaderFooterTexts(doc.pages)

\* process has returned the page, with header detection enabled.
ProcessedWithHeaders == phase = "processed" /\ ret.detect_headers /\ ~ret.raised

(* C15: after process with header detection enabled, every fragment whose   *)
(* font size is above 14 has kind title, wherever it lies on the page, and  *)
(* a fragment whose font size is 14 or less, or absent, is not title.       *)
C15_LargeFontIsTitle ==
    ProcessedWithHeaders =>
        \A i \in 1..Len(input) :
            LET kind == KindOf(page.text_blocks, input[i].id)
            IN  IF IsLargeFont(input[i]) THEN kind = "title" ELSE kind # "title"

\* _process_pages has returned doc.pages.
PagesReturned == doc.pc \in {"collected", "returned"}

\* Processing page page_num of the document fails at some step.
PageFails(page_num) == _process_single_page(doc.pdf_data[page_num], page_num).failed

(* C16: if processing of a page fails at any step, _process_pages still     *)
(* returns one result per input page; the failed page's result is an empty  *)
(* placeholder (its page number, no fragments, tables or images) and every  *)
(* other page's result is what processing that page alone gives.            *)
C16_FailedPageIsPlaceholder ==
    PagesReturned =>
        /\ Len(doc.pages) = Len(doc.pdf_data)
        /\ \A i \in 1..Len(doc.pages) :
              IF PageFails(i)
              THEN doc.pages[i] = EmptyPageResult(i)
              ELSE doc.pages[i] = _process_single_page(doc.pdf_data[i], i).result

(* C17: for every completion order of the page workers,                     *)
(* _process_pages_parallel returns exactly one entry per input page, no     *)
(* entry left None, and the entry at position i (counted from 1) carries    *)
(* page number i.                                                           *)
C17_ParallelInPageOrder ==
    (PagesReturned /\ doc.config.max_workers > 1) =>
        /\ Len(doc.pages) = Len(doc.pdf_data)
        /\ \A i \in 1..Len(doc.pages) :
              ~doc.pages[i].is_none /\ doc.pages[i].page_number = i

\* The parallel branch returned after a later page completed before an
\* earlier one.
C17_Witness ==
    /\ PagesReturned
    /\ doc.config.max_workers > 1
    /\ \E j, k \in 1..Len(doc.order) : j < k /\ doc.order[j] > doc.order[k]

\* The page as it was handed to the layout operation.
InputPage == [page EXCEPT !.text_blocks = input, !.column_processed = FALSE]

\* A step of the process call that returned last failed internally: the
\* title step or the header/footer step raised, or the try block of
\* _detect_columns caught an exception.
StepFailed ==
    LET titled == _detect_headers(InputPage)
        classified == _detect_headers_footers(titled.page)
        before == IF ret.detect_headers THEN classified.page ELSE InputPage
    IN  \/ ret.detect_headers /\ (titled.raised \/ classified.raised)
        \/ /\ ret.detect_columns
           /\ \E split \in SplitOutcomes(InputPage) : _detect_columns(before, split).raised

(* C18: if a step of process (title detection, header/footer detection,     *)
(* column estimation, assignment or composition) fails internally, process  *)
(* raises nothing and returns the page with its fragments in their          *)
(* original extraction order.                                               *)
C18_ProcessNeverRaises ==
    (phase = "processed" /\ StepFailed) =>
        (~ret.raised /\ Ids(page.text_blocks) = Ids(input))

\* The error kind of each upstream fatal condition.
FatalKind(file) ==
    CASE file = "missing" -> "PDFNotFoundError"
      [] file = "empty" -> "PDFCorruptedError"
      [] file = "encrypted" -> "PDFPasswordProtectedError"

\* extract was called on a file in a fatal condition and has got past the
\* step that meets the condition.
FatalConditionMet ==
    /\ doc.pc # "idle"
    /\ doc.entry = "extract"
    /\ \/ doc.file \in {"missing", "empty"} /\ doc.pc # "validate"
       \/ doc.file = "encrypted" /\ doc.pc \notin {"validate", "parse"}

(* C19: extract (and extract_text, which returns extract's text) raises the *)
(* error kind of each upstream fatal condition unchanged: PDFNotFoundError  *)
(* for a missing path, PDFCorruptedError for an empty file,                 *)
(* PDFPasswordProtectedError for an encrypted file; no page is processed.   *)
C19_FatalErrorsUnchanged ==
    FatalConditionMet =>
        /\ doc.pc = "raised"
        /\ doc.error = FatalKind(doc.file)
        /\ doc.pages = <<>> /\ doc.order = <<>>

(* C20 *)

LineSplit == line.pc = "split"

WideGap(chars, page_width) ==
    \E i \in 1..(Len(chars) - 1) : GapAfter(chars, i) * 100 > page_width * SingleGapRatio

LeftToRight(chars) ==
    \A i \in 1..(Len(chars) - 1) : chars[i].x0 <= chars[i + 1].x0

SameChars(a, b) ==
    /\ Len(a) = Len(b)
    /\ {a[i] : i \in 1..Len(a)} = {b[i] : i \in 1..Len(b)}

\* C20: _split_line_by_columns returns a line of 3 or fewer characters as a
\* single piece, the line's characters from left to right, whatever the gaps
\* between them and whatever the page width; of a line without characters it
\* returns no piece at all.
C20_ShortLineIsOnePiece ==
    (LineSplit /\ Len(line.chars) <= 3) =>
        IF line.chars = <<>> THEN line.pieces = <<>>
        ELSE /\ Len(line.pieces) = 1
             /\ SameChars(line.pieces[1], line.chars)
             /\ LeftToRight(line.pieces[1])

\* A line of 3 characters with a gap wider than 20% of the page, handed over
\* right to left, came back as one piece.
C20_Witness ==
    /\ LineSplit
    /\ Len(line.chars) = 3
    /\ ~LeftToRight(line.chars)
    /\ Len(line.pieces) = 1
    /\ WideGap(line.pieces[1], line.page_width)

(* C21 *)

\* The line as sorted() leaves it, and the place of its only candidate gap.
SortedLine == SortedByX0(line.chars)

Candidates ==
    {i \in 1..(Len(SortedLine) - 1) :
        GapAfter(SortedLine, i) * 100 > line.page_width * MinGapRatio}

OneCandidate == LineSplit /\ Len(line.chars) > 3 /\ Cardinality(Candidates) = 1

TheCandidate == CHOOSE i \in Candidates : TRUE

LeftSide == SubSeq(SortedLine, 1, TheCandidate)
RightSide == SubSeq(SortedLine, TheCandidate + 1, Len(SortedLine))

\* The number of characters of a side that are not whitespace.
NonWhitespace(chars) == Cardinality({i \in 1..Len(chars) : chars[i].text # " "})

\* The length of a side's text between its first and its last character that
\* is not whitespace, the whitespace between them counted.
TrimmedLen(chars) ==
    LET inked == {i \in 1..Len(chars) : chars[i].text # " "}
    IN  IF inked = {} THEN 0
        ELSE (CHOOSE i \in inked : \A j \in inked : j <= i)
             - (CHOOSE i \in inked : \A j \in inked : i <= j) + 1

WasSplit == Len(line.pieces) > 1
ReturnedWhole == line.pieces = <<SortedLine>>

\* C21 as stated: with exactly one candidate gap in a line of more than 3
\* characters, the line is split only if the gap is strictly greater than 20%
\* of the page width, each side has at least 2 characters and each side's
\* text has at least 3 characters that are not whitespace; otherwise the line
\* is returned whole.
C21_SplitOnlyIfStrict ==
    OneCandidate =>
        /\ WasSplit \/ ReturnedWhole
        /\ WasSplit =>
              /\ GapAfter(SortedLine, TheCandidate) * 100 > line.page_width * SingleGapRatio
              /\ Len(LeftSide) >= 2 /\ Len(RightSide) >= 2
              /\ NonWhitespace(LeftSide) >= 3 /\ NonWhitespace(RightSide) >= 3

\* C21 amended: with exactly one candidate gap in a line of more than 3
\* characters, the line is split only if the gap is at least 20% of the page
\* width, each side has at least 2 characters and each side's text, leading
\* and trailing whitespace removed, is at least 3 characters long (whitespace
\* inside the text counted); otherwise the line is returned whole.
C21_SplitOnlyIfAtLeast ==
    OneCandidate =>
        /\ WasSplit \/ ReturnedWhole
        /\ WasSplit =>
              /\ GapAfter(SortedLine, TheCandidate) * 100 >= line.page_width * SingleGapRatio
              /\ Len(LeftSide) >= 2 /\ Len(RightSide) >= 2
              /\ TrimmedLen(LeftSide) >= 3 /\ TrimmedLen(RightSide) >= 3

\* A line was split at its only candidate gap, the gap being exactly 20% of
\* the page width and one side holding two characters around a blank.
C21_Witness ==
    /\ OneCandidate
    /\ WasSplit
    /\ GapAfter(SortedLine, TheCandidate) * 100 = line.page_width * SingleGapRatio
    /\ NonWhitespace(LeftSide) = 2
    /\ TrimmedLen(LeftSide) = 3

(* C22 *)

\* The gap between piece k and the piece after it.
GapBetween(pieces, k) ==
    pieces[k + 1][1].x0 - pieces[k][Len(pieces[k])].x1

\* C22: for every non-empty line the pieces returned by
\* _split_line_by_columns are all non-empty; concatenated in order they are
\* the characters of the line from left to right, each character in exactly
\* one piece; and two neighbouring pieces are separated by a gap larger than
\* min_gap_ratio times the page width.
C22_PiecesPartitionTheLine ==
    (LineSplit /\ line.chars # <<>>) =>
        /\ \A k \in 1..Len(line.pieces) : line.pieces[k] # <<>>
        /\ SameChars(Concat(line.pieces), line.chars)
        /\ LeftToRight(Concat(line.pieces))
        /\ \A k \in 1..(Len(line.pieces) - 1) :
              GapBetween(line.pieces, k) * 100 > line.page_width * MinGapRatio

\* A line handed over right to left came back in three pieces.
C22_Witness ==
    /\ LineSplit
    /\ ~LeftToRight(line.chars)
    /\ Len(line.pieces) = 3
    /\ \E k \in 1..3 : Len(line.pieces[k]) = 1

(* C23 *)

ObjectsDone == line.pc = "objects"

CharSet(chars) == {chars[i] : i \in 1..Len(chars)}

\* Wider than 60% of the page width and of more than 10 characters.
OversizedPieces ==
    {k \in 1..Len(line.pieces) :
        LET piece == line.pieces[k]
        IN  /\ Len(piece) > 10
            /\ (piece[Len(piece)].x1 - piece[1].x0) * 100 > line.page_width * 60}

\* The text objects made of characters of the piece, in the order emitted.
ObjectsFrom(piece) ==
    SelectSeq(line.objects,
              LAMBDA o : o.chars # <<>> /\ CharSet(o.chars) \subseteq CharSet(piece))

\* The first cluster's mean x0 is not above the second's.
MeanNotAbove(a, b) ==
    SumSeq([i \in 1..Len(a) |-> a[i].x0]) * Len(b)
        <= SumSeq([i \in 1..Len(b) |-> b[i].x0]) * Len(a)

\* C23: of an oversized piece _extract_text_objects emits either the piece as
\* one text object, or two text objects, the cluster of the smaller mean x0
\* first, each of at least 3 characters and the two together holding exactly
\* the characters of the piece; whatever the clustering ends with, no
\* character of the piece is lost.
C23_OversizedKeepsItsCharacters ==
    ObjectsDone =>
        \A k \in OversizedPieces :
            LET piece == line.pieces[k]
                os    == ObjectsFrom(piece)
            IN  \/ Len(os) = 1 /\ os[1].chars = piece
                \/ /\ Len(os) = 2
                   /\ Len(os[1].chars) >= 3 /\ Len(os[2].chars) >= 3
                   /\ MeanNotAbove(os[1].chars, os[2].chars)
                   /\ SameChars(os[1].chars \o os[2].chars, piece)

(* C24 *)

RowsGrouped == phase = "rows"

RowOf(rows, id) == {k \in 1..Len(rows) : \E j \in 1..Len(rows[k]) : rows[k][j].id = id}

\* C24: _group_blocks_by_rows returns rows: every block of the input is in
\* exactly one row, blocks of the same top edge share a row, the rows run
\* from top to bottom, and the grid of two rows and two columns comes back
\* as left-top, right-top, left-bottom, right-bottom.
C24_RowsGroupTheGrid ==
    RowsGrouped =>
        /\ ~ret.raised
        /\ \A i \in 1..Len(input) : Cardinality(RowOf(ret.rows, input[i].id)) = 1
        /\ \A i, j \in 1..Len(input) :
              (input[i].bbox[2] = input[j].bbox[2]) =>
                  RowOf(ret.rows, input[i].id) = RowOf(ret.rows, input[j].id)
        /\ \A k \in 1..(Len(ret.rows) - 1) :
              ret.rows[k][1].bbox[2] < ret.rows[k + 1][1].bbox[2]
        /\ (Len(input) = 4) =>
              [k \in 1..4 |-> Concat(ret.rows)[k].bbox] =
                  << <<50, 100, 200, 130>>, <<250, 100, 400, 130>>,
                     <<50, 150, 200, 180>>, <<250, 150, 400, 180>> >>

(* C25 *)

\* What layout detection makes of the page's blocks when the page result
\* has the width and the height of the source page.
LaidOutOnRealGeometry(page_data, page_num) ==
    process([EmptyPageResult(page_num) EXCEPT
                !.text_blocks = _extract_text_blocks(page_data),
                !.width = page_data.width,
                !.height = page_data.height],
            TRUE, TRUE, FALSE)

\* C25: layout detection in _process_single_page runs on a page result that
\* has the source page's width and height: for a page of width > 0 that is
\* processed without failure, the blocks returned, their order, region kinds
\* and column ids, are those layout detection yields on the real geometry.
C25_LayoutSeesPageGeometry ==
    PagesReturned =>
        \A i \in 1..Len(doc.pages) :
            (doc.pdf_data[i].width > 0 /\ ~PageFails(i)) =>
                doc.pages[i].text_blocks =
                    LaidOutOnRealGeometry(doc.pdf_data[i], i).page.text_blocks

(* C26 *)

\* C26: when the page's width is 0, process changes nothing: the order of
\* the fragments, every fragment's region kind and column id and the
\* column-reordered flag are after the call what they were before it.
C26_ZeroWidthChangesNothing ==
    (phase = "processed" /\ page.width = 0) =>
        /\ page.text_blocks = input
        /\ ~page.column_processed

(* C27 *)

\* The x positions the gap-histogram method reads from the page's blocks.
XPositions(blocks) ==
    {blocks[i].bbox[1] : i \in {j \in 1..Len(blocks) : Len(blocks[j].bbox) >= 2}}

\* The gap-histogram method came as far as its large gaps: the page has a
\* width, two x positions or more, no empty histogram bin in the middle of
\* the page, and a gap above the noise floor.
ReachedLargeGaps(p) ==
    LET xs == XPositions(p.text_blocks)
        n  == Min2(MaxBins, Cardinality(xs) \div 2 + 1)
    IN  /\ p.width > 0
        /\ Cardinality(xs) >= 2
        /\ ~\E i \in GapBins(Histogram(xs, n, p.width), n) : GapInMiddle(i, n, p.width)
        /\ SignificantGaps(SortedSeq(xs)) # <<>>

\* The gaps above both 1.1 times the mean significant gap and 20% of the
\* page width.
AboveBoth(gaps, w) ==
    SelectSeq(gaps, LAMBDA g : g * Len(gaps) * 10 > SumSeq(gaps) * 11 /\ g * 5 > w)

\* The gaps above 1.1 times the mean significant gap or above 20% of the page
\* width.
AboveEither(gaps, w) ==
    SelectSeq(gaps, LAMBDA g : g * Len(gaps) * 10 > SumSeq(gaps) * 11 \/ g * 5 > w)

PageGaps == SignificantGaps(SortedSeq(XPositions(page.text_blocks)))

Estimated == phase = "estimated" /\ ~ret.raised /\ ret.votes # <<>>

\* C27 as stated: in the gap-histogram method a significant gap counts as a
\* large gap only if it exceeds the larger of 1.1 times the mean significant
\* gap and 20% of the page width: the method's count is the one estimated
\* from the gaps above both, and 1 when no gap is above both.
C27_LargeGapAboveBoth ==
    (Estimated /\ ReachedLargeGaps(page)) =>
        LET large == AboveBoth(PageGaps, page.width)
        IN  ret.votes[1] = IF large = <<>> THEN 1
                           ELSE Clamp(_estimate_column_count(page.width, large))

\* C27 amended: a significant gap counts as a large gap if it exceeds 1.1
\* times the mean significant gap or 20% of the page width, that is the
\* smaller of the two: the method's count is the one estimated from the gaps
\* above either, and 1 when no gap is above either.
C27_LargeGapAboveEither ==
    (Estimated /\ ReachedLargeGaps(page)) =>
        LET large == AboveEither(PageGaps, page.width)
        IN  ret.votes[1] = IF large = <<>> THEN 1
                           ELSE Clamp(_estimate_column_count(page.width, large))

\* The method counted two columns from a gap that is above 20% of the page
\* width and not above 1.1 times the mean gap.
C27_Witness ==
    /\ Estimated
    /\ ReachedLargeGaps(page)
    /\ AboveBoth(PageGaps, page.width) = <<>>
    /\ AboveEither(PageGaps, page.width) # <<>>
    /\ ret.votes[1] = 2

(* C28 *)

\* The band of the page, of column_count equal bands, that holds the
\* horizontal centre of the block; column 0 for a block without both
\* horizontal edges and for a centre outside [0, page width).
BandOfCentre(b, w, column_count) ==
    IF Len(b.bbox) < 3 THEN 0
    ELSE LET bands == {i \in 0..(column_count - 1) :
                          /\ 2 * i * w <= (b.bbox[1] + b.bbox[3]) * column_count
                          /\ (b.bbox[1] + b.bbox[3]) * column_count < 2 * (i + 1) * w}
         IN  IF bands = {} THEN 0 ELSE CHOOSE i \in bands : TRUE

ListsHolding(columns, id) ==
    {c \in 1..Len(columns) : \E j \in 1..Len(columns[c]) : columns[c][j].id = id}

\* The call assigned every block of the page as C28 says.
AssignedByBand ==
    /\ ~ret.raised
    /\ \A i \in 1..Len(page.text_blocks) :
          LET b == page.text_blocks[i]
          IN  /\ b.column_id = BandOfCentre(b, page.width, ret.count)
              /\ ListsHolding(ret.columns, b.id) = {b.column_id + 1}

\* C28: _assign_blocks_to_columns puts a fragment whose centre c satisfies
\* 0 <= c < W in the column i with i*W/N <= c < (i+1)*W/N, a fragment with
\* no usable bbox or with its centre outside [0, W) in column 0, and each
\* fragment's column_id is the index of the list that holds it.
C28_AssignedToBandOfCentre == phase = "assigned" => AssignedByBand

(* C29 *)

Classified == phase = "classified"

Labelled(kind) == {i \in 1..Len(page.text_blocks) : page.text_blocks[i].block_type = kind}

\* Taller than 30% of the page height or wider than 80% of the page width.
VeryLarge(b) ==
    \/ 10 * (b.bbox[4] - b.bbox[2]) > 3 * page.height
    \/ 5 * (b.bbox[3] - b.bbox[1]) > 4 * page.width

\* C29: every fragment _detect_headers_footers labels header has its top
\* edge within the top 5% of the page height, every fragment it labels
\* footer has its bottom edge within the bottom 5%, and no fragment without
\* a bbox, taller than 30% of the page height or wider than 80% of the page
\* width is labelled header or footer.
C29_LabelsStayInBands ==
    Classified =>
        /\ \A i \in Labelled("header") \cup Labelled("footer") :
              /\ Len(page.text_blocks[i].bbox) = 4
              /\ ~VeryLarge(page.text_blocks[i])
        /\ \A i \in Labelled("header") : 20 * page.text_blocks[i].bbox[2] < page.height
        /\ \A i \in Labelled("footer") : 20 * page.text_blocks[i].bbox[4] > 19 * page.height

\* A page with a banner across its top band was classified: the line in the
\* bottom band is a footer, the banner is not a header.
C29_Witness ==
    /\ Classified
    /\ Labelled("footer") # {}
    /\ \E i \in 1..Len(page.text_blocks) :
          /\ VeryLarge(page.text_blocks[i])
          /\ 20 * page.text_blocks[i].bbox[2] < page.height
          /\ page.text_blocks[i].block_type = "text"

(* C30 *)

\* What a run with one worker returns for the pages: the results of the
\* pages taken one after the other, each with its page number.
RECURSIVE OneAfterTheOther(_, _)
OneAfterTheOther(pdf_data, done) ==
    IF Len(done) = Len(pdf_data) THEN done
    ELSE OneAfterTheOther(pdf_data,
             Append(done, _process_single_page(pdf_data[Len(done) + 1], Len(done) + 1).result))

\* C30: for the same document the page list _process_pages returns with
\* max_workers > 1 is the list it returns with max_workers = 1, whatever the
\* order in which the workers complete and also when pages fail: both runs
\* return the results of the pages taken one after the other.
C30_ParallelEqualsSequential ==
    PagesReturned => doc.pages = OneAfterTheOther(doc.pdf_data, <<>>)

\* A run with two workers returned two pages, the second completed first and
\* one of them failed.
C30_Witness ==
    /\ PagesReturned
    /\ doc.config.max_workers > 1
    /\ doc.order = <<2, 1>>
    /\ \E i \in 1..2 : PageFails(i)

=============================================================================
